---- MODULE Spec2Model ----
(***************************************************************************)
(* A model of the IMAP migration tool (src/imap_migration.py).             *)
(*                                                                         *)
(* One behaviour is one execution of the __main__ block: the account       *)
(* pairs of emails.json are migrated one after the other against one       *)
(* SQLite table migrated_messages.  The two IMAP servers and the SQLite    *)
(* file are the environment: every call the program makes to them either   *)
(* returns or raises, and the model chooses the outcome.  The number of    *)
(* calls that do not answer "OK" is bounded by MaxFaults.                  *)
(***************************************************************************)
EXTENDS Integers, Sequences, FiniteSets, TLC

(***************************************************************************)
(* Bounds of the model.                                                    *)
(***************************************************************************)
NumMsgs == 2         \* messages in each source folder
MaxFaults == 3       \* calls of one execution that fail or are rejected

(***************************************************************************)
(* Program constants.                                                      *)
(***************************************************************************)
MaxAttempts == 3     \* the number of attempts the retry policy allows
RetriesPlusOne == MaxAttempts + 1   \* a loop that runs once more than that
Retries == 3         \* migrate_message(..., retries=3)
ECONNRESET == 54     \* the errno migrate_message compares with

(***************************************************************************)
(* The environment: accounts, source mailboxes.                            *)
(***************************************************************************)
PairA == [src |-> "a@x", dst |-> "d@x"]
PairB == [src |-> "b@y", dst |-> "d@x"]
PairSet == {PairA, PairB}

\* The contents of emails.json: the same pair twice (the tool run again on
\* an unchanged source), or two sources migrated into one destination.
Configs == { <<PairA, PairA>>, <<PairA, PairB>> }

\* The untagged LIST lines of a source server, each already split on the
\* double quote: (\HasNoChildren) "/" "INBOX"
ListResponse ==
    << <<"(\\HasNoChildren) ", "/", " ", "INBOX", "">>,
       <<"(\\HasNoChildren) ", "/", " ", "Sent", "">> >>

\* get_folders: f.decode().split('"')[-2] for every line of the listing
ParseListLine(parts) == parts[Len(parts) - 1]

get_folders == [i \in 1..Len(ListResponse) |-> ParseListLine(ListResponse[i])]

FolderNames == {get_folders[i] : i \in 1..Len(get_folders)}

\* message_nums of a folder: messages[0].split() of SEARCH ALL
MessageNums == 1..NumMsgs

\* The UID the source server reports for sequence number num.
SourceUid(acct, folder, num) == num

\* The answer to FETCH num (UID), split on white space: "1 (UID 1)"
UidResponse(num, u) ==
    << [tok |-> "num", v |-> num],
       [tok |-> "(UID", v |-> 0],
       [tok |-> "uid)", v |-> u] >>

\* uid_data[0].decode().split()[2]: the third token, closing parenthesis
\* included
ExtractUid(resp) == resp[3]

\* The messages that exist on the source servers, with their destination.
Msg(acct, folder, u, dst) == <<acct, folder, u, dst>>

Messages ==
    { Msg(p.src, f, SourceUid(p.src, f, n), p.dst) :
        p \in PairSet, f \in FolderNames, n \in MessageNums }

(***************************************************************************)
(* The exceptions the calls raise.  OSError is socket.error; the class     *)
(* "Exception" stands for every exception that is not an OSError           *)
(* (imaplib.IMAP4.error, imaplib.IMAP4.abort, sqlite3.Error).  errno 0     *)
(* stands for None.                                                        *)
(***************************************************************************)
ConnReset == [cls |-> "OSError", errno |-> ECONNRESET, text |-> "Connection reset by peer"]
TimedOut == [cls |-> "OSError", errno |-> 0, text |-> "timed out"]
AbortEOF == [cls |-> "Exception", errno |-> 0, text |-> "socket error: EOF"]
BadReply == [cls |-> "Exception", errno |-> 0, text |-> "command error: BAD"]
StateErr == [cls |-> "Exception", errno |-> 0, text |-> "illegal in state"]
DbErr == [cls |-> "Exception", errno |-> 0, text |-> "database is locked"]
NoExc == [cls |-> "none", errno |-> 0, text |-> ""]

\* What a command sent to a server can raise.
NetExc == {ConnReset, TimedOut, AbortEOF, BadReply}
\* What it can raise once the server has carried the command out.
LostReplyExc == {ConnReset, TimedOut, AbortEOF}

\* "BAD_LENGTH" in str(e) or "socket error" in str(e)
\* A handler that takes every exception for a transport error.
ReconnectOnAnyError(e) == TRUE

HasReconnectText(e) == e.text \in {"socket error: EOF", "BAD_LENGTH"}

\* 2 ** attempt
RECURSIVE Pow2(_)
Pow2(n) == IF n = 0 THEN 1 ELSE 2 * Pow2(n - 1)

(***************************************************************************)
(* State.                                                                  *)
(***************************************************************************)
VARIABLES
    cfg,        \* email_configs: the account pairs, in configuration order
    run,        \* index in cfg of the pair the main loop is at
    pc,         \* position of the program
    fi,         \* index in get_folders of the folder migrate_all is at
    mi,         \* num: the sequence number migrate_folder is at
    attempt,    \* attempt of migrate_message
    exc,        \* the exception being handled or propagated
    src,        \* state of self.source
    dst,        \* state of self.dest
    migrated_uids, \* the set migrate_folder loaded for the folder
    db,         \* rows of migrated_messages
    dstFolders, \* folders that exist on each destination account
    delivered,  \* per message, the APPENDs the destination carried out
    faults,     \* calls so far that failed or were rejected
    clean,      \* no call of the current pair's run failed or was rejected
    log,        \* per message of the current run, what the engine did
    skipped,    \* messages the engine skipped as already migrated
    report,     \* per pair of cfg, how its run ended
    ops,        \* per pair of cfg, whether a folder or message call was made
    dbAtStart,  \* db when the current pair's run started
    loadedAt,   \* per folder of the current run, the set loaded for it
    succeeded,  \* pairs with a run in which every message was transferred
    leaked,     \* the current run dropped an authenticated session
                \* without a logout
    trace,      \* the calls of the current run on folders and messages
    lastOp,     \* the last statement run directly on the store
    race        \* per racing run, its position in migrate_folder

vars == <<cfg, run, pc, fi, mi, attempt, exc, src, dst, migrated_uids, db,
          dstFolders, delivered, faults, clean, log, skipped, report, ops,
          dbAtStart, loadedAt, succeeded, leaked, trace, lastOp, race>>

hist == <<delivered, skipped, report, ops, dbAtStart, loadedAt, succeeded>>

\* What the migration of the configured pairs never touches.
aux == <<lastOp, race>>

NoOp == [op |-> "none", dest |-> "", key |-> <<>>, before |-> {},
         error |-> FALSE, n |-> 0]

SessionStates ==
    {"none", "nonauth", "auth", "selected", "logout", "closed", "stalled"}

LogKeys == (1..Len(get_folders)) \X MessageNums

NoEntry ==
    [st |-> "none", tries |-> 0, appends |-> 0, acc |-> 0, nTrans |-> 0, nOther |-> 0,
     reconn |-> 0, delays |-> <<>>, reauthFail |-> FALSE, triesAfter |-> 0]

Dests == {p.dst : p \in PairSet}

Init ==
    /\ cfg \in Configs
    /\ run = 1
    /\ pc = "main"
    /\ fi = 0
    /\ mi = 0
    /\ attempt = 0
    /\ exc = NoExc
    /\ src = "none"
    /\ dst = "none"
    /\ migrated_uids = {}
    /\ db = {}
    /\ dstFolders = [d \in Dests |-> {"INBOX"}]
    /\ delivered = [m \in Messages |-> 0]
    /\ faults = 0
    /\ clean = TRUE
    /\ log = [k \in LogKeys |-> NoEntry]
    /\ skipped = {}
    /\ report = [r \in DOMAIN cfg |-> "none"]
    /\ ops = [r \in DOMAIN cfg |-> FALSE]
    /\ dbAtStart = {}
    /\ loadedAt = [i \in 1..Len(get_folders) |-> {}]
    /\ succeeded = {}
    /\ leaked = FALSE
    /\ trace = <<>>
    /\ lastOp = NoOp
    /\ race = <<>>

(***************************************************************************)
(* Calls to the servers (imaplib).  A reply is what the call does: it       *)
(* returns typ "OK" or "NO" (imaplib raises on "BAD" only, a "NO" is        *)
(* returned to the caller), or it raises e; done says whether the server    *)
(* carried the command out; cost is 1 for a failure the environment         *)
(* chooses.  A session that met a network failure stays unusable.           *)
(***************************************************************************)
Reply(typ, e, done, cost) == [typ |-> typ, e |-> e, done |-> done, cost |-> cost]

Left == MaxFaults - faults

\* The state of a session object after a call on it raised e.
Break(e, s) ==
    IF e \in {ConnReset, AbortEOF} THEN "closed"
    ELSE IF e = TimedOut THEN "stalled"
    ELSE s

\* A command on a session in state s that imaplib allows in states okStates.
Cmd(s, okStates, canNo, lossy) ==
    IF s = "closed" THEN {Reply("raise", AbortEOF, FALSE, 0)}
    ELSE IF s = "stalled" THEN {Reply("raise", TimedOut, FALSE, 0)}
    ELSE IF s \notin okStates THEN {Reply("raise", StateErr, FALSE, 0)}
    ELSE {Reply("OK", NoExc, TRUE, 0)}
         \cup (IF Left > 0
               THEN {Reply("raise", e, FALSE, 1) : e \in NetExc}
                    \cup (IF lossy
                          THEN {Reply("raise", e, TRUE, 1) : e \in LostReplyExc}
                          ELSE {})
                    \cup (IF canNo THEN {Reply("NO", NoExc, FALSE, 1)} ELSE {})
               ELSE {})

\* self.source.logout() / self.dest.logout() raise on a session whose
\* socket is gone.
LogoutRaises(s) == s \in {"closed", "stalled", "logout"}

(***************************************************************************)
(* connect (lines 146-162): the point at which it fails, or "ok".           *)
(***************************************************************************)
ConnectPoints == {"ok", "src_open", "src_login", "dst_open", "dst_login"}

ConnectSrc(point, old) ==
    CASE point = "src_open" -> old
      [] point = "src_login" -> "nonauth"
      [] OTHER -> "auth"

ConnectDst(point, old) ==
    CASE point = "ok" -> "auth"
      [] point = "dst_login" -> "nonauth"
      [] OTHER -> old

\* A connect() that returns True whatever happened.
ConnectAlwaysTrue(point) == TRUE

\* connect() returns True only when both logins succeeded
connect(point) == point = "ok"

(***************************************************************************)
(* reconnect(folder) (lines 164-183): the set of its results, each with     *)
(* the sessions it leaves, ret ("True", "False", or "raise" with e) and     *)
(* the number of failures the environment chose.                            *)
(***************************************************************************)
ReconnectSelect(s, d, leak) ==
    { [src |-> IF r.typ = "OK" THEN "selected" ELSE Break(r.e, "auth"),
       dst |-> d,
       ret |-> IF r.typ = "raise" THEN "raise" ELSE "True",
       e |-> r.e,
       cost |-> r.cost,
       leak |-> leak] : r \in Cmd(s, {"auth", "selected"}, TRUE, FALSE) }

\* The session states in which a login is in force.
Authd == {"auth", "selected"}

\* The points of connect() at which self.dest is bound to a new object.
DestReplaced == {"ok", "dst_login"}

reconnect(s, d) ==
    LET s1 == "logout"
        \* source.logout() raising leaves the try block: no dest.logout()
        d1 == IF LogoutRaises(s) THEN d ELSE "logout"
        dropped(pt) == d1 \in Authd /\ pt \in DestReplaced
    IN  ReconnectSelect("auth", "auth", dropped("ok"))
        \cup (IF Left > 0
              THEN { [src |-> ConnectSrc(pt, s1), dst |-> ConnectDst(pt, d1),
                      ret |-> "False", e |-> NoExc, cost |-> 1,
                      leak |-> dropped(pt)] :
                        pt \in ConnectPoints \ {"ok"} }
              ELSE {})

(***************************************************************************)
(* The dedup store (SQLite table migrated_messages).  A row carries the     *)
(* rowid SQLite gives it; (folder, uid, dest_email) is the primary key.     *)
(***************************************************************************)
Key(row) == <<row.folder, row.uid, row.dest_email>>

NextRowId(rows) ==
    IF rows = {} THEN 1
    ELSE 1 + (CHOOSE n \in {r.rowid : r \in rows} :
                \A r \in rows : r.rowid <= n)

\* The row an INSERT of (folder, uid, dest_email) would add.
NewRow(rows, folder, uid, dest_user) ==
    [rowid |-> NextRowId(rows), folder |-> folder, uid |-> uid,
     dest_email |-> dest_user]

\* INSERT into a table with PRIMARY KEY (folder, uid, dest_email): on a
\* conflict OR IGNORE skips the row, a plain INSERT raises IntegrityError.
Insert(rows, new, onConflict) ==
    IF \E r \in rows : Key(r) = Key(new)
    THEN [rows |-> rows, error |-> onConflict # "IGNORE"]
    ELSE [rows |-> rows \cup {new}, error |-> FALSE]

\* A store_migrated_uid that inserts nothing.
StoreNothing(rows, folder, uid, dest_user) == rows

\* A store_migrated_uid on a table without the primary key.
InsertWithoutKey(rows, folder, uid, dest_user) ==
    rows \cup {NewRow(rows, folder, uid, dest_user)}

\* INSERT OR IGNORE INTO migrated_messages (folder, uid, dest_email)
store_migrated_uid(rows, folder, uid, dest_user) ==
    Insert(rows, NewRow(rows, folder, uid, dest_user), "IGNORE").rows

\* A plain INSERT: a row that is there already raises IntegrityError.
PlainInsertRaises(rows, folder, uid, dest_user) ==
    Insert(rows, NewRow(rows, folder, uid, dest_user), "ABORT").error

\* Whether that statement raises.
store_raises(rows, folder, uid, dest_user) ==
    Insert(rows, NewRow(rows, folder, uid, dest_user), "IGNORE").error

\* A get_migrated_uids whose query leaves out the folder.
SelectAnyFolder(rows, folder, dest_user) ==
    { r.uid : r \in { x \in rows : x.dest_email = dest_user } }

\* SELECT uid FROM migrated_messages WHERE folder = ? AND dest_email = ?
get_migrated_uids(rows, folder, dest_user) ==
    { r.uid : r \in { x \in rows : x.folder = folder /\ x.dest_email = dest_user } }

\* SELECT COUNT(*) FROM migrated_messages WHERE dest_email = ?
CountRows(rows, email) == Cardinality({ r \in rows : r.dest_email = email })

\* A delete_rows whose DELETE has no WHERE clause.
DeleteEveryRow(rows, email) == {}

\* delete_rows(email) of clear_uids_by_email.py: the table it leaves
delete_rows(rows, email) ==
    IF CountRows(rows, email) > 0
    THEN { r \in rows : r.dest_email # email }
    ELSE rows

(***************************************************************************)
(* The position of the program.                                             *)
(***************************************************************************)
Pair == cfg[run]
\* A loop of migrate_all that walks the listing backwards.
FolderFromTheEnd == get_folders[Len(get_folders) + 1 - fi]

Folder == get_folders[fi]
CurUid == ExtractUid(UidResponse(mi, SourceUid(Pair.src, Folder, mi)))
CurMsg == Msg(Pair.src, Folder, SourceUid(Pair.src, Folder, mi), Pair.dst)
K == <<fi, mi>>

Transient(e) == e \in {ConnReset, TimedOut, AbortEOF}

\* The log entry of the current message after an attempt raised e.
Raised(entry, e, appended, accepted) ==
    [entry EXCEPT !.tries = @ + 1,
                  !.appends = @ + (IF appended THEN 1 ELSE 0),
                  !.acc = @ + (IF accepted THEN 1 ELSE 0),
                  !.nTrans = @ + (IF Transient(e) THEN 1 ELSE 0),
                  !.nOther = @ + (IF Transient(e) THEN 0 ELSE 1),
                  !.triesAfter = @ + (IF entry.reauthFail THEN 1 ELSE 0)]

(***************************************************************************)
(* __main__ (lines 320-323) up to the connect() of migrate_all (line 295):  *)
(* a new IMAPMigration for the next pair, then connect().                   *)
(***************************************************************************)
StartPair ==
    /\ pc = "main"
    /\ UNCHANGED aux
    /\ run <= Len(cfg)
    /\ \E pt \in ConnectPoints :
         /\ pt # "ok" => Left > 0
         /\ src' = ConnectSrc(pt, "none")
         /\ dst' = ConnectDst(pt, "none")
         /\ faults' = faults + (IF pt = "ok" THEN 0 ELSE 1)
         /\ clean' = (pt = "ok")
         /\ report' = IF pt = "ok" THEN report
                       ELSE [report EXCEPT ![run] = "connfail"]
         /\ IF connect(pt)
            THEN pc' = "list" /\ run' = run
            ELSE \* migrate_all returns False; the loop of __main__ goes on
                 pc' = "main" /\ run' = run + 1
    /\ fi' = 0
    /\ mi' = 0
    /\ attempt' = 0
    /\ exc' = NoExc
    /\ migrated_uids' = {}
    /\ log' = [k \in LogKeys |-> NoEntry]
    /\ dbAtStart' = db
    /\ loadedAt' = [i \in 1..Len(get_folders) |-> {}]
    /\ trace' = <<>>
    /\ leaked' = FALSE
    /\ UNCHANGED <<cfg, db, dstFolders, delivered, skipped, ops, succeeded>>

\* The loop of __main__ has no pair left.
MainExit ==
    /\ pc = "main"
    /\ UNCHANGED aux
    /\ run > Len(cfg)
    /\ pc' = "done"
    /\ UNCHANGED <<cfg, run, fi, mi, attempt, exc, src, dst, migrated_uids,
                   db, dstFolders, faults, clean, log>>
    /\ UNCHANGED <<hist, leaked, trace>>

(***************************************************************************)
(* migrate_all, line 299: folders = self.get_folders().  An exception       *)
(* leaves the try block through finally.                                    *)
(***************************************************************************)
GetFolders ==
    /\ pc = "list"
    /\ UNCHANGED aux
    /\ \E r \in Cmd(src, {"auth", "selected"}, FALSE, FALSE) :
         /\ src' = Break(r.e, src)
         /\ faults' = faults + r.cost
         /\ clean' = (clean /\ r.typ = "OK")
         /\ exc' = r.e
         /\ IF r.typ = "OK"
            THEN pc' = "create" /\ fi' = 1
            ELSE pc' = "finally" /\ fi' = fi
    /\ ops' = [ops EXCEPT ![run] = TRUE]
    /\ UNCHANGED <<cfg, run, mi, attempt, dst, migrated_uids, db, dstFolders,
                   log, delivered, skipped, report, dbAtStart, loadedAt,
                   succeeded, leaked, trace>>

(***************************************************************************)
(* migrate_all, line 301: create_folder(folder) (lines 210-216).  Whatever  *)
(* dest.create does, create_folder returns.                                 *)
(***************************************************************************)
CreateFolder ==
    /\ pc = "create"
    /\ UNCHANGED aux
    /\ fi <= Len(get_folders)
    /\ \E r \in Cmd(dst, {"auth", "selected"}, TRUE, TRUE) :
         /\ dst' = Break(r.e, dst)
         /\ faults' = faults + r.cost
         /\ clean' = (clean /\ r.typ = "OK")
         /\ dstFolders' = IF r.done
                          THEN [dstFolders EXCEPT ![Pair.dst] = @ \cup {Folder}]
                          ELSE dstFolders
    /\ pc' = "folder"
    /\ ops' = [ops EXCEPT ![run] = TRUE]
    /\ trace' = Append(trace, <<"create", Folder>>)
    /\ UNCHANGED <<cfg, run, fi, mi, attempt, exc, src, migrated_uids, db,
                   log, delivered, skipped, report, dbAtStart, loadedAt,
                   succeeded, leaked>>

\* migrate_all, line 304: the loop over the folders is over.
AllFoldersDone ==
    /\ pc = "create"
    /\ UNCHANGED aux
    /\ fi > Len(get_folders)
    /\ pc' = "finally"
    /\ exc' = NoExc
    /\ UNCHANGED <<cfg, run, fi, mi, attempt, src, dst, migrated_uids, db,
                   dstFolders, faults, clean, log>>
    /\ UNCHANGED <<hist, leaked, trace>>

(***************************************************************************)
(* migrate_folder, lines 221-231: select and search on the source, load     *)
(* the migrated uids, select on the destination.  The results: the          *)
(* sessions afterwards, whether line 234 is reached, the failures chosen.   *)
(***************************************************************************)
\* A migrate_folder that ends the loop of migrate_all when it fails.
FolderFailedEndsRun == pc' = "finally" /\ fi' = fi

\* except Exception: return False (lines 248-250); the loop of migrate_all
\* (line 300) takes the next folder
FolderFailed == pc' = "create" /\ fi' = fi + 1

FolderResult(s, d, ok, cost) == [src |-> s, dst |-> d, ok |-> ok, cost |-> cost]

\* self.dest.select(folder): a "NO" (no such folder) is returned, not raised
DestSelect(s, c) ==
    { FolderResult(s,
                   IF r.typ = "raise" THEN Break(r.e, dst)
                   ELSE IF Folder \in dstFolders[Pair.dst] THEN "selected"
                   ELSE "auth",
                   r.typ # "raise",
                   c + r.cost) : r \in Cmd(dst, {"auth", "selected"}, FALSE, FALSE) }

\* migrated_uids = self.get_migrated_uids(folder): sqlite3 may raise
LoadMigrated(s, c) ==
    DestSelect(s, c)
    \cup (IF Left > 0 THEN {FolderResult(s, dst, FALSE, c + 1)} ELSE {})

\* self.source.search(None, 'ALL')
Search(s, c) ==
    UNION { IF r.typ = "OK"
            THEN LoadMigrated(s, c + r.cost)
            ELSE {FolderResult(Break(r.e, s), dst, FALSE, c + r.cost)} :
              r \in Cmd(s, {"selected"}, FALSE, FALSE) }

\* self.source.select(folder): on "NO" imaplib falls back to state AUTH
BeginFolderResults ==
    UNION { IF r.typ = "raise"
            THEN {FolderResult(Break(r.e, src), dst, FALSE, r.cost)}
            ELSE Search(IF r.typ = "OK" THEN "selected" ELSE "auth", r.cost) :
              r \in Cmd(src, {"auth", "selected"}, TRUE, FALSE) }

BeginFolder ==
    /\ pc = "folder"
    /\ UNCHANGED aux
    /\ \E r \in BeginFolderResults :
         /\ faults + r.cost <= MaxFaults
         /\ src' = r.src
         /\ dst' = r.dst
         /\ faults' = faults + r.cost
         /\ clean' = (clean /\ r.cost = 0 /\ r.ok)
         /\ IF r.ok
            THEN /\ migrated_uids' = get_migrated_uids(db, Folder, Pair.dst)
                 /\ loadedAt' = [loadedAt EXCEPT ![fi] =
                                    get_migrated_uids(db, Folder, Pair.dst)]
                 /\ pc' = "msg"
                 /\ mi' = 1
                 /\ fi' = fi
            ELSE /\ FolderFailed
                 /\ UNCHANGED <<migrated_uids, loadedAt, mi>>
    /\ trace' = Append(trace, <<"migrate", Folder>>)
    /\ UNCHANGED <<cfg, run, attempt, exc, db, dstFolders, log, delivered,
                   skipped, report, ops, dbAtStart, succeeded, leaked>>

(***************************************************************************)
(* migrate_folder, lines 234-243: fetch the UID of message num; skip the    *)
(* message when the UID is in migrated_uids, else call migrate_message.     *)
(***************************************************************************)
\* if uid in migrated_uids (line 238)
AlreadyMigrated(uid, uids) == uid \in uids

CheckMessage ==
    /\ pc = "msg"
    /\ UNCHANGED aux
    /\ mi <= NumMsgs
    /\ \E r \in Cmd(src, {"selected"}, FALSE, FALSE) :
         /\ src' = Break(r.e, src)
         /\ faults' = faults + r.cost
         /\ clean' = (clean /\ r.typ = "OK")
         /\ IF r.typ # "OK"
            THEN /\ FolderFailed
                 /\ UNCHANGED <<mi, attempt, log, skipped>>
            ELSE IF AlreadyMigrated(CurUid, migrated_uids)
            THEN \* continue (line 240)
                 /\ log' = [log EXCEPT ![K].st = "skipped"]
                 /\ skipped' = skipped \cup {CurMsg}
                 /\ mi' = mi + 1
                 /\ UNCHANGED <<pc, fi, attempt>>
            ELSE \* migrate_message(num, folder, uid)
                 /\ log' = [log EXCEPT ![K].st = "running"]
                 /\ attempt' = 0
                 /\ pc' = "try"
                 /\ UNCHANGED <<mi, fi, skipped>>
    /\ UNCHANGED <<cfg, run, exc, dst, migrated_uids, db, dstFolders,
                   delivered, report, ops, dbAtStart, loadedAt, succeeded,
                   leaked, trace>>

\* migrate_folder, line 247: the loop over message_nums is over, return True
FolderDone ==
    /\ pc = "msg"
    /\ UNCHANGED aux
    /\ mi > NumMsgs
    /\ pc' = "create"
    /\ fi' = fi + 1
    /\ UNCHANGED <<cfg, run, mi, attempt, exc, src, dst, migrated_uids, db,
                   dstFolders, faults, clean, log>>
    /\ UNCHANGED <<hist, leaked, trace>>

(***************************************************************************)
(* migrate_message, lines 254-272: one pass through the try block.  The     *)
(* results: the sessions afterwards, the exception raised (NoExc when       *)
(* line 272 is reached), whether dest.append was called (app) and whether   *)
(* the destination stored the message (acc), the failures chosen.           *)
(***************************************************************************)
TryResult(s, d, e, app, acc, cost) ==
    [src |-> s, dst |-> d, e |-> e, app |-> app, acc |-> acc, cost |-> cost]

\* self.store_migrated_uid(folder, uid): sqlite3 may raise
StoreStep(acc, c) ==
    {TryResult(src, dst, NoExc, TRUE, acc, c)}
    \cup (IF Left > 0 THEN {TryResult(src, dst, DbErr, TRUE, acc, c + 1)} ELSE {})

\* The replies to APPEND: a destination without the folder answers "NO".
AppendReplies ==
    LET rs == Cmd(dst, {"auth", "selected"}, TRUE, TRUE)
    IN  IF Folder \in dstFolders[Pair.dst] THEN rs
        ELSE { IF r.typ = "OK" THEN Reply("NO", NoExc, FALSE, 0)
               ELSE [r EXCEPT !.done = FALSE] : r \in rs }

\* self.dest.append(folder, flags, None, email_body): the value it returns
\* is not looked at
AppendStep(c) ==
    UNION { IF r.typ = "raise"
            THEN {TryResult(src, Break(r.e, dst), r.e, TRUE, r.done, c + r.cost)}
            ELSE StoreStep(r.typ = "OK", c + r.cost) : r \in AppendReplies }

\* self.source.fetch(num, '(RFC822 FLAGS)')
TryResults ==
    UNION { IF r.typ = "raise"
            THEN {TryResult(Break(r.e, src), dst, r.e, FALSE, FALSE, r.cost)}
            ELSE AppendStep(r.cost) : r \in Cmd(src, {"selected"}, FALSE, FALSE) }

TryBody ==
    /\ pc = "try"
    /\ UNCHANGED aux
    /\ \E r \in TryResults :
         /\ faults + r.cost <= MaxFaults
         /\ src' = r.src
         /\ dst' = r.dst
         /\ faults' = faults + r.cost
         /\ clean' = (clean /\ r.cost = 0 /\ r.e = NoExc)
         /\ delivered' = IF r.acc THEN [delivered EXCEPT ![CurMsg] = @ + 1]
                         ELSE delivered
         /\ trace' = IF r.app THEN Append(trace, <<"append", Folder, mi>>)
                     ELSE trace
         /\ IF r.e = NoExc
            THEN \* return True (line 272)
                 /\ db' = store_migrated_uid(db, Folder, CurUid, Pair.dst)
                 /\ log' = [log EXCEPT ![K].st = "True",
                                       ![K].tries = @ + 1,
                                       ![K].appends = @ + 1,
                                       ![K].acc = @ + (IF r.acc THEN 1 ELSE 0),
                                       ![K].nOther = @ + (IF r.acc THEN 0 ELSE 1),
                                       ![K].triesAfter =
                                           @ + (IF log[K].reauthFail THEN 1 ELSE 0)]
                 /\ mi' = mi + 1
                 /\ pc' = "msg"
                 /\ exc' = NoExc
            ELSE /\ log' = [log EXCEPT ![K] = Raised(@, r.e, r.app, r.acc)]
                 /\ exc' = r.e
                 /\ pc' = "except"
                 /\ UNCHANGED <<db, mi>>
    /\ UNCHANGED <<cfg, run, fi, attempt, migrated_uids, dstFolders, skipped,
                   report, ops, dbAtStart, loadedAt, succeeded, leaked>>

(***************************************************************************)
(* migrate_message, the two except clauses (lines 273-291).                 *)
(***************************************************************************)
\* The log entry after self.reconnect(folder) gave rr and the sleep.
Retried(entry, rr) ==
    [entry EXCEPT !.reconn = @ + 1,
                  !.reauthFail = (@ \/ rr.ret = "False"),
                  !.delays = Append(@, Pow2(attempt))]

\* return False / fall off the loop (None): migrate_folder goes on
MessageFailed(ret) ==
    /\ log' = [log EXCEPT ![K].st = ret]
    /\ mi' = mi + 1
    /\ pc' = "msg"
    /\ exc' = NoExc
    /\ UNCHANGED <<fi, attempt>>

\* A loop that makes the same attempt again.
SameAttemptAgain ==
    /\ attempt' = attempt
    /\ exc' = NoExc
    /\ pc' = "try"
    /\ mi' = mi
    /\ fi' = fi

\* for attempt in range(retries): the next attempt, or the end of the loop
NextAttempt ==
    /\ attempt' = attempt + 1
    /\ exc' = NoExc
    /\ IF attempt + 1 < Retries
       THEN pc' = "try" /\ mi' = mi
       ELSE pc' = "msg" /\ mi' = mi + 1
    /\ fi' = fi

\* self.reconnect(folder) inside a handler, then time.sleep(2 ** attempt)
ReconnectAndSleep ==
    \E rr \in reconnect(src, dst) :
         /\ src' = rr.src
         /\ dst' = rr.dst
         /\ leaked' = (leaked \/ rr.leak)
         /\ faults' = faults + rr.cost
         /\ IF rr.ret = "raise"
            THEN \* out of migrate_message, into the except clause of
                 \* migrate_folder: return False (lines 248-250)
                 /\ log' = [log EXCEPT ![K].st = "raised", ![K].reconn = @ + 1]
                 /\ FolderFailed
                 /\ exc' = NoExc
                 /\ UNCHANGED <<mi, attempt>>
            ELSE /\ log' = [log EXCEPT
                              ![K] = [Retried(@, rr) EXCEPT !.st =
                                        IF attempt + 1 < Retries THEN @ ELSE "None"]]
                 /\ NextAttempt

\* except socket.error as e (lines 273-280)
ExceptSocketError ==
    /\ pc = "except"
    /\ UNCHANGED aux
    /\ exc.cls = "OSError"
    /\ IF exc.errno = ECONNRESET
       THEN ReconnectAndSleep
       ELSE /\ MessageFailed("False")
            /\ UNCHANGED <<src, dst, faults, leaked>>
    /\ UNCHANGED <<cfg, run, migrated_uids, db, dstFolders, clean, trace>>
    /\ UNCHANGED hist

\* except Exception as e (lines 281-291)
ExceptException ==
    /\ pc = "except"
    /\ UNCHANGED aux
    /\ exc.cls = "Exception"
    /\ IF attempt < Retries - 1
       THEN IF HasReconnectText(exc)
            THEN ReconnectAndSleep
            ELSE /\ log' = [log EXCEPT ![K].delays = Append(@, Pow2(attempt))]
                 /\ NextAttempt
                 /\ UNCHANGED <<src, dst, faults, leaked>>
       ELSE /\ MessageFailed("False")
            /\ UNCHANGED <<src, dst, faults, leaked>>
    /\ UNCHANGED <<cfg, run, migrated_uids, db, dstFolders, clean, trace>>
    /\ UNCHANGED hist

(***************************************************************************)
(* migrate_all, the finally clause (lines 305-309), and what __main__ does  *)
(* with what migrate_all returns or raises (lines 320-326).                 *)
(***************************************************************************)
AllTransferred == \A k \in LogKeys : log[k].st \in {"True", "skipped"}

Finally ==
    /\ pc = "finally"
    /\ UNCHANGED aux
    /\ src' = "logout"
    /\ dst' = IF LogoutRaises(src) THEN dst ELSE "logout"
    /\ IF LogoutRaises(src) \/ LogoutRaises(dst) \/ exc # NoExc
       THEN \* the exception reaches the except clause of __main__
            /\ report' = [report EXCEPT ![run] =
                            IF exc = NoExc THEN "logout raised" ELSE "raised"]
            /\ pc' = "done"
            /\ run' = run
       ELSE /\ report' = [report EXCEPT ![run] = "completed"]
            /\ pc' = "main"
            /\ run' = run + 1
    /\ succeeded' = IF exc = NoExc /\ AllTransferred
                    THEN succeeded \cup {Pair} ELSE succeeded
    /\ exc' = NoExc
    /\ UNCHANGED <<cfg, fi, mi, attempt, migrated_uids, db, dstFolders,
                   delivered, faults, clean, log, skipped, ops, dbAtStart,
                   loadedAt, leaked, trace>>

Next ==
    \/ StartPair
    \/ MainExit
    \/ GetFolders
    \/ CreateFolder
    \/ AllFoldersDone
    \/ BeginFolder
    \/ CheckMessage
    \/ FolderDone
    \/ TryBody
    \/ ExceptSocketError
    \/ ExceptException
    \/ Finally

Spec == Init /\ [][Next]_vars


(***************************************************************************)
(* The dedup store on its own: store_migrated_uid and the purge utility     *)
(* (clear_uids_by_email.py) applied to tables the migration can have        *)
(* written.                                                                 *)
(***************************************************************************)
\* The variables of the migration of configuration c while no migration
\* runs, at position p.
Rest(c, p) ==
    /\ cfg = c
    /\ run = 1
    /\ pc = p
    /\ fi = 0
    /\ mi = 0
    /\ attempt = 0
    /\ exc = NoExc
    /\ src = "none"
    /\ dst = "none"
    /\ migrated_uids = {}
    /\ faults = 0
    /\ clean = TRUE
    /\ log = [k \in LogKeys |-> NoEntry]
    /\ skipped = {}
    /\ report = [r \in DOMAIN cfg |-> "none"]
    /\ ops = [r \in DOMAIN cfg |-> FALSE]
    /\ dbAtStart = {}
    /\ loadedAt = [i \in 1..Len(get_folders) |-> {}]
    /\ succeeded = {}
    /\ leaked = FALSE
    /\ trace = <<>>

\* No message has been appended, the destinations have their INBOX.
Untouched ==
    /\ dstFolders = [d \in Dests |-> {"INBOX"}]
    /\ delivered = [m \in Messages |-> 0]

engine == <<cfg, run, pc, fi, mi, attempt, exc, src, dst, migrated_uids,
            dstFolders, faults, clean, log, leaked, trace>>

MaxStoreOps == 2

\* The destination accounts with rows in the store.
StoreDests == {"a@x", "b@y"}

\* The (folder, uid) of the i-th message in the order the migration
\* records them: folders in listing order, messages by number.
NumKeys == Len(get_folders) * NumMsgs

FolderAt(i) == get_folders[((i - 1) \div NumMsgs) + 1]

UidAt(i) ==
    LET num == ((i - 1) % NumMsgs) + 1
    IN  ExtractUid(UidResponse(num, SourceUid("a@x", FolderAt(i), num)))

\* rows with the first n messages recorded for dest_user
RECURSIVE Fill(_, _, _)
Fill(rows, dest_user, n) ==
    IF n = 0 THEN rows
    ELSE store_migrated_uid(Fill(rows, dest_user, n - 1),
                            FolderAt(n), UidAt(n), dest_user)

StoreTables ==
    { Fill(Fill({}, "a@x", na), "b@y", nb) : na, nb \in 0..NumKeys }

StoreInit ==
    /\ Rest(<<PairA, PairA>>, "store")
    /\ Untouched
    /\ db \in StoreTables
    /\ lastOp = NoOp
    /\ race = <<>>

\* store_migrated_uid(folder, uid) of a migration to dest_user
StoreRecord ==
    /\ pc = "store"
    /\ lastOp.n < MaxStoreOps
    /\ \E i \in 1..NumKeys, d \in StoreDests :
         /\ db' = store_migrated_uid(db, FolderAt(i), UidAt(i), d)
         /\ lastOp' = [op |-> "record", dest |-> d,
                       key |-> <<FolderAt(i), UidAt(i), d>>, before |-> db,
                       error |-> store_raises(db, FolderAt(i), UidAt(i), d),
                       n |-> lastOp.n + 1]
    /\ UNCHANGED <<engine, hist, race>>

\* python clear_uids_by_email.py <email>
Purge ==
    /\ pc = "store"
    /\ lastOp.n < MaxStoreOps
    /\ \E d \in StoreDests :
         /\ db' = delete_rows(db, d)
         /\ lastOp' = [op |-> "purge", dest |-> d, key |-> <<>>, before |-> db,
                       error |-> FALSE, n |-> lastOp.n + 1]
    /\ UNCHANGED <<engine, hist, race>>

StoreNext ==
    \/ StoreRecord
    \/ Purge

StoreSpec == StoreInit /\ [][StoreNext]_vars

(***************************************************************************)
(* Two runs of the same pair at the same time on one store: each is the     *)
(* loop of migrate_all over the folders and the loop of migrate_folder      *)
(* over the messages, with every call answered "OK".                        *)
(***************************************************************************)
Runs == {1, 2}

RacePair == PairA

RaceStart == [pc |-> "load", fi |-> 1, mi |-> 0, uids |-> {}, err |-> FALSE,
              dup |-> FALSE]

RaceInit ==
    /\ Rest(<<PairA, PairA>>, "race")
    /\ Untouched
    /\ db = {}
    /\ lastOp = NoOp
    /\ race = [p \in Runs |-> RaceStart]

RaceFolder(p) == get_folders[race[p].fi]

RaceUid(p) ==
    ExtractUid(UidResponse(race[p].mi,
                           SourceUid(RacePair.src, RaceFolder(p), race[p].mi)))

RaceMsg(p) ==
    Msg(RacePair.src, RaceFolder(p),
        SourceUid(RacePair.src, RaceFolder(p), race[p].mi), RacePair.dst)

\* migrate_folder, line 226: migrated_uids = self.get_migrated_uids(folder)
RaceLoad(p) ==
    /\ pc = "race"
    /\ race[p].pc = "load"
    /\ race' = [race EXCEPT
                  ![p].uids = get_migrated_uids(db, RaceFolder(p), RacePair.dst),
                  ![p].mi = 1,
                  ![p].pc = "check"]
    /\ UNCHANGED <<engine, hist, db, lastOp>>

\* migrate_folder, lines 234-247: skip the message, or call
\* migrate_message, or return True and let migrate_all take the next folder
RaceCheck(p) ==
    /\ pc = "race"
    /\ race[p].pc = "check"
    /\ race' = IF race[p].mi > NumMsgs
               THEN [race EXCEPT ![p].fi = @ + 1,
                                 ![p].pc = IF race[p].fi < Len(get_folders)
                                           THEN "load" ELSE "done"]
               ELSE IF AlreadyMigrated(RaceUid(p), race[p].uids)
               THEN [race EXCEPT ![p].mi = @ + 1]
               ELSE [race EXCEPT ![p].pc = "append"]
    /\ UNCHANGED <<engine, hist, db, lastOp>>

\* migrate_message, lines 256-261: fetch, then self.dest.append
RaceAppend(p) ==
    /\ pc = "race"
    /\ race[p].pc = "append"
    /\ delivered' = [delivered EXCEPT ![RaceMsg(p)] = @ + 1]
    /\ race' = [race EXCEPT ![p].pc = "record"]
    /\ UNCHANGED <<engine, skipped, report, ops, dbAtStart, loadedAt,
                   succeeded, db, lastOp>>

\* migrate_message, lines 264-272: self.store_migrated_uid(folder, uid)
RaceRecord(p) ==
    /\ pc = "race"
    /\ race[p].pc = "record"
    /\ db' = store_migrated_uid(db, RaceFolder(p), RaceUid(p), RacePair.dst)
    /\ race' = [race EXCEPT
                  ![p].err = (@ \/ store_raises(db, RaceFolder(p), RaceUid(p),
                                                RacePair.dst)),
                  ![p].dup = (@ \/ \E r \in db :
                                     Key(r) = <<RaceFolder(p), RaceUid(p),
                                                RacePair.dst>>),
                  ![p].mi = @ + 1,
                  ![p].pc = "check"]
    /\ UNCHANGED <<engine, hist, lastOp>>

RaceNext ==
    \E p \in Runs :
        \/ RaceLoad(p)
        \/ RaceCheck(p)
        \/ RaceAppend(p)
        \/ RaceRecord(p)

RaceSpec == RaceInit /\ [][RaceNext]_vars

(***************************************************************************)
(* One run of one pair, started on what earlier runs of the pair left: the  *)
(* first n messages appended and recorded, their folders created.           *)
(***************************************************************************)
OnePair == <<PairA>>

\* The messages of the pair an earlier run has transferred, in its order.
DoneBefore(n) ==
    { Msg(PairA.src, get_folders[i], SourceUid(PairA.src, get_folders[i], num),
          PairA.dst) :
        <<i, num>> \in { k \in LogKeys : (k[1] - 1) * NumMsgs + k[2] <= n } }

OneRunInit ==
    /\ Rest(OnePair, "main")
    /\ \E n \in 0..NumKeys :
         /\ db = Fill({}, PairA.dst, n)
         /\ delivered = [m \in Messages |->
                            IF m \in DoneBefore(n) THEN 1 ELSE 0]
         /\ dstFolders = [d \in Dests |->
                            {"INBOX"} \cup { m[2] : m \in DoneBefore(n) }]
    /\ lastOp = NoOp
    /\ race = <<>>

OneRunSpec == OneRunInit /\ [][Next]_vars

\* One thread runs the program and every call returns or raises (the
\* sessions are opened with timeout=30): a step that can be taken is taken.
FairOneRunSpec == OneRunSpec /\ WF_vars(Next)

(***************************************************************************)
(* Vocabulary of the properties.                                            *)
(***************************************************************************)
\* The run the log is about: at "main" the loop has moved to the next pair.
LogRun == IF pc = "main" \/ run > Len(cfg) THEN run - 1 ELSE run

UidToken(u) == [tok |-> "uid)", v |-> u]

\* The rows of the store for one folder and destination, as uid tokens.
RowsFor(rows, folder, dest) ==
    { r.uid : r \in { x \in rows : Key(x) = <<folder, x.uid, dest>> } }

\* The message behind log key k of the run the log is about.
MsgOf(k) ==
    Msg(cfg[LogRun].src, get_folders[k[1]],
        SourceUid(cfg[LogRun].src, get_folders[k[1]], k[2]), cfg[LogRun].dst)

Recorded(k) ==
    UidToken(MsgOf(k)[3]) \in RowsFor(db, get_folders[k[1]], cfg[LogRun].dst)

Ended(e) == e.st \in {"True", "False", "None", "raised"}
EndedInFailure(e) == e.st \in {"False", "None", "raised"}
Reached(e) == e.st # "none"

\* C1: every row of the dedup store stands for a message that the
\* destination accepted into that folder of that destination account.
C1_RecordOnlyAfterAcceptedAppend ==
    \A r \in db :
        \E m \in Messages :
            /\ m[2] = r.folder
            /\ UidToken(m[3]) = r.uid
            /\ m[4] = r.dest_email
            /\ delivered[m] > 0

\* C2: no source message is stored by the destination more than once,
\* whatever fails and however often the pair is run.
C2_NoDuplicateAppend == \A m \in Messages : delivered[m] <= 1

\* C3: once a run of a pair has transferred every message, a later run of
\* that pair sends no FETCH of content and no APPEND and leaves the dedup
\* store as it found it.
C3_SecondRunTransfersNothing ==
    (pc \notin {"main", "done"} /\ Pair \in succeeded) =>
        /\ \A k \in LogKeys : log[k].tries = 0 /\ log[k].appends = 0
        /\ db = dbAtStart

C3_Witness ==
    /\ pc = "finally"
    /\ run = 2
    /\ Pair \in succeeded
    /\ \A k \in LogKeys : log[k].st = "skipped"

\* C4: at the end of a run without failures, per folder: the set loaded is
\* the store's uids for (folder, destination); the messages with a uid in
\* it were skipped without any fetch of content or append; every other
\* message was fetched and appended exactly once; and the store's uids for
\* (folder, destination) are the loaded ones plus all uids of the folder.
C4_CleanRunTransfersExactlyTheMissing ==
    (pc = "finally" /\ clean /\ exc = NoExc) =>
        \A f \in 1..Len(get_folders) :
            LET had == RowsFor(dbAtStart, get_folders[f], Pair.dst)
                all == { UidToken(SourceUid(Pair.src, get_folders[f], n)) :
                           n \in MessageNums }
            IN  /\ loadedAt[f] = had
                /\ \A n \in MessageNums :
                     LET e == log[<<f, n>>]
                     IN  IF UidToken(SourceUid(Pair.src, get_folders[f], n)) \in had
                         THEN e.st = "skipped" /\ e.tries = 0 /\ e.appends = 0
                         ELSE e.st = "True" /\ e.tries = 1 /\ e.appends = 1
                              /\ e.acc = 1
                /\ RowsFor(db, get_folders[f], Pair.dst) = had \cup all

C4_Witness ==
    /\ pc = "finally"
    /\ clean
    /\ exc = NoExc
    /\ RowsFor(dbAtStart, "INBOX", Pair.dst) = {UidToken(1)}
    /\ log[<<1, 1>>].st = "skipped"
    /\ log[<<1, 2>>].st = "True"

\* C5: a message the engine skipped as already migrated is a message the
\* destination accepted before.
C5_SkippedWasDelivered == \A m \in skipped : delivered[m] > 0

\* C6: when a run reaches its end, every folder was gone through, and after
\* a message whose transfer failed every later message of its folder was
\* reached.
C6_FailureDoesNotStopTheFolder ==
    (pc = "finally" /\ exc = NoExc) =>
        /\ fi > Len(get_folders)
        /\ \A k \in LogKeys : \A n \in MessageNums :
             (EndedInFailure(log[k]) /\ n > k[2]) => Reached(log[<<k[1], n>>])

\* C7: a transfer that met k < 3 failures, all of them transient network
\* failures, and whose reconnects all went through, returned True after k
\* reconnects and the k delays 1, 2, ..., with the message stored once by
\* the destination and recorded.
C7_BoundedRetrySucceeds ==
    \A k \in LogKeys :
        LET e == log[k]
        IN  (Ended(e) /\ e.st # "raised" /\ ~e.reauthFail
             /\ e.nOther = 0 /\ e.nTrans < MaxAttempts) =>
                /\ e.st = "True"
                /\ e.reconn = e.nTrans
                /\ e.delays = [i \in 1..e.nTrans |-> Pow2(i - 1)]
                /\ e.acc = 1
                /\ Recorded(k)

\* C8: no message gets more than 3 passes through the transfer operation
\* in one run, and a transfer whose 3 passes all failed transiently does
\* not return True and leaves no row for the message.
C8_RetryExhaustion ==
    \A k \in LogKeys :
        LET e == log[k]
        IN  /\ e.tries <= MaxAttempts
            /\ e.nTrans = MaxAttempts => (e.st # "True" /\ ~Recorded(k))

C8_Witness ==
    \E k \in LogKeys :
        /\ log[k].nTrans = MaxAttempts
        /\ log[k].st \in {"False", "None"}
        /\ pc = "msg"

\* C9: once re-authentication failed in a reconnect, the transfer makes no
\* further pass, records nothing, and the next message of the folder is
\* reached.
C9_ReauthFailureEndsTheTransfer ==
    \A k \in LogKeys :
        LET e == log[k]
        IN  e.reauthFail =>
              /\ e.triesAfter = 0
              /\ ~Recorded(k)
              /\ (pc = "finally" /\ k[2] < NumMsgs) => Reached(log[<<k[1], k[2] + 1>>])

\* C10: a pair whose sessions could not be established makes no folder or
\* message call, and the loop of __main__ moves on to the next pair.
C10_ConnectFailureIsolated ==
    \A r \in DOMAIN cfg :
        report[r] = "connfail" =>
            /\ ~ops[r]
            /\ run > r
            /\ r < Len(cfg) =>
                 \/ report[r + 1] # "none"
                 \/ run = r + 1 /\ pc # "done"

C10_Witness ==
    /\ report[1] = "connfail"
    /\ report[2] = "completed"
    /\ ops[2]

\* C11: when an account-pair run has returned, on whatever path, neither of
\* its sessions is still authenticated and no authenticated session was
\* dropped without a logout.
C11_SessionsLoggedOutAtReturn ==
    pc \in {"main", "done"} =>
        /\ src \notin Authd
        /\ dst \notin Authd
        /\ ~leaked


Unique(rows) == \A r1, r2 \in rows : Key(r1) = Key(r2) => r1 = r2

HasKey(rows, key) == \E r \in rows : Key(r) = key

\* C12: the store never holds two rows for one (folder, uid, dest_email);
\* a store_migrated_uid call raises nothing, leaves its triple in the
\* store, and leaves the store as it was when the triple was there already.
C12_StoreUniqueAndIdempotent ==
    /\ Unique(db)
    /\ lastOp.op = "record" =>
         /\ ~lastOp.error
         /\ HasKey(db, lastOp.key)
         /\ HasKey(lastOp.before, lastOp.key) => db = lastOp.before

C12_Witness ==
    /\ lastOp.op = "record"
    /\ lastOp.n = MaxStoreOps
    /\ HasKey(lastOp.before, lastOp.key)
    /\ Cardinality(db) > 1

\* C13: a purge of destination d leaves no row of d and leaves exactly the
\* rows of every other destination, rowids included.
C13_PurgeFrame ==
    lastOp.op = "purge" =>
        /\ CountRows(db, lastOp.dest) = 0
        /\ db = { r \in lastOp.before : r.dest_email # lastOp.dest }

C13_Witness ==
    /\ lastOp.op = "purge"
    /\ lastOp.dest = "a@x"
    /\ CountRows(lastOp.before, "a@x") = 2
    /\ CountRows(lastOp.before, "b@y") = 3
    /\ Cardinality(db) = 3
    /\ CountRows(db, "b@y") = 3


NonTransient(e) == e \in {BadReply, StateErr, DbErr}

\* C15: a transient network failure of a transfer with attempts left is
\* followed by one reconnect, then the delay 2^attempt, then the next
\* attempt of the same message (unless the reconnect itself raised).
C15_TransientFailureIsRetried ==
    [][(pc = "except" /\ Transient(exc) /\ attempt < MaxAttempts - 1) =>
          \/ log'[K].st = "raised"
          \/ /\ pc' = "try"
             /\ attempt' = attempt + 1
             /\ mi' = mi
             /\ log'[K].reconn = log[K].reconn + 1
             /\ log'[K].delays = Append(log[K].delays, Pow2(attempt))]_vars

\* C16: a failure of a transfer that is no transient network failure ends
\* the transfer at once: the message has failed, with no reconnect, no
\* delay and no further attempt.
C16_NonTransientFailsAtOnce ==
    [][(pc = "except" /\ NonTransient(exc)) =>
          /\ pc' = "msg"
          /\ mi' = mi + 1
          /\ log'[K].st = "False"
          /\ log'[K].reconn = log[K].reconn
          /\ log'[K].delays = log[K].delays]_vars

\* C16, as the handler does it: such a failure causes no reconnect; with
\* attempts left the handler sleeps 2^attempt and makes the next attempt,
\* on the last attempt the message has failed at once, without a delay.
C16_NonTransientRetriedWithoutReconnect ==
    [][(pc = "except" /\ NonTransient(exc)) =>
          /\ log'[K].reconn = log[K].reconn
          /\ src' = src
          /\ dst' = dst
          /\ IF attempt < MaxAttempts - 1
             THEN /\ pc' = "try"
                  /\ attempt' = attempt + 1
                  /\ mi' = mi
                  /\ log'[K].delays = Append(log[K].delays, Pow2(attempt))
             ELSE /\ pc' = "msg"
                  /\ mi' = mi + 1
                  /\ log'[K].st = "False"
                  /\ log'[K].delays = log[K].delays]_vars

C16_Witness ==
    /\ pc = "msg"
    /\ mi > 1
    /\ LET e == log[<<fi, mi - 1>>]
       IN  /\ e.st = "False"
           /\ e.nOther = MaxAttempts
           /\ e.reconn = 0
           /\ e.delays = <<Pow2(0), Pow2(1)>>

\* C17: no logout failure reaches __main__, none keeps the other session
\* from being logged out, and none keeps a later pair from running.
C17_LogoutFailureNotPropagated ==
    /\ \A r \in DOMAIN cfg :
          /\ report[r] # "logout raised"
          /\ (report[r] = "logout raised" /\ r < Len(cfg)) => run > r
    /\ ~leaked
    /\ pc = "done" => dst \notin Authd

\* The calls of the current run on folders, in the order they were made.
FolderCalls == SelectSeq(trace, LAMBDA ev : ev[1] \in {"create", "migrate"})

\* create and migrate for every folder of the listing, in listing order.
RECURSIVE CallsFor(_)
CallsFor(i) ==
    IF i > Len(get_folders) THEN <<>>
    ELSE <<<<"create", get_folders[i]>>, <<"migrate", get_folders[i]>>>>
         \o CallsFor(i + 1)

\* migrate_folder of folder i returned False in the current run.
FolderFailedAt(i) ==
    \/ \E m \in MessageNums : log[<<i, m>>].st \in {"none", "raised"}

\* The appends of the current run, in the order they were made.
Appends == SelectSeq(trace, LAMBDA ev : ev[1] = "append")

\* The position of a folder in the source listing.
Position(f) == CHOOSE i \in 1..Len(get_folders) : get_folders[i] = f

\* C18: when migrate_all leaves its try block after the listing was read,
\* every folder of the listing has been created and attempted, one after
\* the other in listing order, whatever failed in the folders before it.
C18_FolderFailureDoesNotStopTheRun ==
    pc = "finally" =>
        FolderCalls = IF exc = NoExc THEN CallsFor(1) ELSE <<>>

C18_Witness ==
    /\ pc = "finally"
    /\ exc = NoExc
    /\ FolderFailedAt(1)
    /\ dst \in Authd
    /\ get_folders[2] \in dstFolders[Pair.dst]
    /\ FolderCalls = CallsFor(1)
    /\ \E m \in MessageNums : log[<<2, m>>].st = "True"

\* C19: the appends a run has made when it leaves its try block came in
\* the order of (position of the folder in the listing, sequence number),
\* each one not before its predecessor in that order, retries and
\* reconnects included, and the create of a folder came before the first
\* append to it.
C19_AppendOrder ==
    pc = "finally" =>
        /\ \A i \in 1..(Len(Appends) - 1) :
              \/ Position(Appends[i][2]) < Position(Appends[i + 1][2])
              \/ /\ Appends[i][2] = Appends[i + 1][2]
                 /\ Appends[i][3] <= Appends[i + 1][3]
        /\ \A j \in DOMAIN trace :
              trace[j][1] = "append" =>
                  \E i \in 1..(j - 1) : trace[i] = <<"create", trace[j][2]>>

C19_Witness ==
    /\ pc = "finally"
    /\ \E k \in LogKeys : log[k].reconn > 0 /\ log[k].appends > 1
    /\ \A f \in FolderNames :
          \E j \in DOMAIN trace : trace[j][1] = "append" /\ trace[j][2] = f

\* The place of a position of the program in the order of the code.
Stage(p) ==
    CASE p = "main" -> 0
      [] p = "list" -> 1
      [] p = "create" -> 2
      [] p = "folder" -> 3
      [] p = "msg" -> 4
      [] p = "try" -> 5
      [] p = "except" -> 6
      [] p = "finally" -> 7
      [] OTHER -> 8

\* How far the program is: pair, folder, message, attempt, position; the
\* loop variables count only inside their loops.
Rank ==
    LET f == IF pc = "main" THEN 0 ELSE fi
        m == IF pc \in {"msg", "try", "except"} THEN mi ELSE 0
        a == IF pc \in {"try", "except"} THEN attempt ELSE 0
    IN  (((run * (Len(get_folders) + 2) + f) * (NumMsgs + 2) + m)
            * (MaxAttempts + 1) + a) * 9 + Stage(pc)

\* C20: every step moves the program forward in the order (pair, folder,
\* message, attempt, position), so that no failure re-enters an earlier
\* message or folder and no message gets an attempt beyond the last one,
\* and a run that has its sessions reaches its end.
C20_EveryRunTerminates ==
    /\ [][Rank' > Rank]_vars
    /\ [](pc \in {"try", "except"} => attempt < MaxAttempts)
    /\ (pc = "list") ~> (pc \in {"main", "done"})

C20_Witness ==
    /\ pc = "done"
    /\ run > Len(cfg)
    /\ faults = MaxFaults
    /\ \E k \in LogKeys : log[k].tries = MaxAttempts /\ log[k].st = "False"

====
